---- MODULE Spec2Model ----
(***************************************************************************)
(* chainsafe: a command-line rewriter that inserts optional chaining       *)
(* (`?.`) into JavaScript/TypeScript source text.                          *)
(*                                                                         *)
(* Source text, command-line arguments and identifier names are sequences  *)
(* of one-character strings; offsets into a text are zero-based as in the  *)
(* JavaScript source, so the character at offset p of text s is s[p + 1].  *)
(***************************************************************************)
EXTENDS Integers, Sequences, FiniteSets, TLC

VARIABLES
    args,            \* process.argv.slice(2)
    maxIterations,   \* state.config.maxIterations
    pc,              \* position of main / processDirectory / processFile
    exitCode,        \* "running", then "ok" (normal end) or "failed" (process.exit(1))
    builtInGlobals,  \* state.builtInGlobals
    skipOnlySet,     \* state.skipOnlySet
    applyOnlySet,    \* state.applyOnlySet
    options,         \* { preview, fileType } built by main
    inputIsDir,      \* whether args[0] names a directory
    disk,            \* the files under the input path: sequence of [ext, text]
    entry,           \* index into disk of the file being processed
    code,            \* processFile: code
    previousCode,    \* processFile: previousCode
    iteration,       \* processFile: iteration
    hasChanges,      \* processFile: hasChanges
    stats,           \* state.stats
    fsLog,           \* history: the file-system calls made so far, in order
    passes,          \* history: addOptionalChaining calls made for the current file
    lastPass,        \* history: input, insertion offsets and output of the last pass
    driver,          \* history: how the iteration loop of the current file ended
    orig,            \* history: the files as they were when the run started
    patch            \* the patch loop run on its own: [code, result, collected, pending, applied]

vars == <<args, maxIterations, pc, exitCode, builtInGlobals, skipOnlySet,
          applyOnlySet, options, inputIsDir, disk, entry, code, previousCode,
          iteration, hasChanges, stats, fsLog, passes, lastPass, driver, orig,
          patch>>

-----------------------------------------------------------------------------
(* Characters and strings *)

LowerCase == {"a", "b", "c", "d", "e", "f", "g", "h", "i", "j", "k", "l", "m",
              "n", "o", "p", "q", "r", "s", "t", "u", "v", "w", "x", "y", "z"}
UpperCase == {"A", "B", "C", "D", "E", "F", "G", "H", "I", "J", "K", "L", "M",
              "N", "O", "P", "Q", "R", "S", "T", "U", "V", "W", "X", "Y", "Z"}
Digits == {"0", "1", "2", "3", "4", "5", "6", "7", "8", "9"}

n_Array == <<"A", "r", "r", "a", "y">>
n_Object == <<"O", "b", "j", "e", "c", "t">>
n_String == <<"S", "t", "r", "i", "n", "g">>
n_Number == <<"N", "u", "m", "b", "e", "r">>
n_Boolean == <<"B", "o", "o", "l", "e", "a", "n">>
n_Date == <<"D", "a", "t", "e">>
n_Math == <<"M", "a", "t", "h">>
n_JSON == <<"J", "S", "O", "N">>
n_RegExp == <<"R", "e", "g", "E", "x", "p">>
n_Error == <<"E", "r", "r", "o", "r">>
n_Map == <<"M", "a", "p">>
n_Set == <<"S", "e", "t">>
n_WeakMap == <<"W", "e", "a", "k", "M", "a", "p">>
n_WeakSet == <<"W", "e", "a", "k", "S", "e", "t">>
n_Symbol == <<"S", "y", "m", "b", "o", "l">>
n_Promise == <<"P", "r", "o", "m", "i", "s", "e">>
n_Proxy == <<"P", "r", "o", "x", "y">>
n_Reflect == <<"R", "e", "f", "l", "e", "c", "t">>
n_BigInt == <<"B", "i", "g", "I", "n", "t">>
n_Function == <<"F", "u", "n", "c", "t", "i", "o", "n">>
n_console == <<"c", "o", "n", "s", "o", "l", "e">>
n_Buffer == <<"B", "u", "f", "f", "e", "r">>
n_process == <<"p", "r", "o", "c", "e", "s", "s">>
n_env == <<"e", "n", "v">>
n_a == <<"a">>
n_b == <<"b">>
n_x == <<"x">>
n_require == <<"r", "e", "q", "u", "i", "r", "e">>

f_help == <<"-", "-", "h", "e", "l", "p">>
f_skip_list == <<"-", "-", "s", "k", "i", "p", "-", "l", "i", "s", "t">>
f_skip_none == <<"-", "-", "s", "k", "i", "p", "-", "n", "o", "n", "e">>
f_skip == <<"-", "-", "s", "k", "i", "p">>
f_no_skip == <<"-", "-", "n", "o", "-", "s", "k", "i", "p">>
f_skip_only == <<"-", "-", "s", "k", "i", "p", "-", "o", "n", "l", "y">>
f_apply_only == <<"-", "-", "a", "p", "p", "l", "y", "-", "o", "n", "l", "y">>
f_preview == <<"-", "-", "p", "r", "e", "v", "i", "e", "w">>
f_type == <<"-", "-", "t", "y", "p", "e">>
f_h == <<"-", "h">>
f_options == <<"-", "-", "o", "p", "t", "i", "o", "n", "s">>
f_o == <<"-", "o">>

v_src == <<"s", "r", "c">>
v_a == <<"a">>
v_bad == <<"a", ",", "1", "x">>
v_comma == <<",">>
v_ts == <<"t", "s">>
v_js == <<"j", "s">>
v_xx == <<"x", "x">>
v_1x == <<"1", "x">>
v_a_process == <<"a", ",", "p", "r", "o", "c", "e", "s", "s">>

\* The absent string (null / undefined); every real argument is non-empty.
NoString == <<>>

-----------------------------------------------------------------------------
(* Configuration: DEFAULT_CONFIG and class State *)

DefaultMaxIterations == 5

DefaultBuiltInGlobals ==
    {n_Array, n_Object, n_String, n_Number, n_Boolean,
     n_Date, n_Math, n_JSON, n_RegExp, n_Error,
     n_Map, n_Set, n_WeakMap, n_WeakSet, n_Symbol,
     n_Promise, n_Proxy, n_Reflect, n_BigInt,
     n_Function, n_console, n_Buffer, n_process}

\* A variant of shouldSkip: the deny-list is consulted before the allow-list.
shouldSkipDenyFirst(name, globals, skipOnly, applyOnly) ==
    IF name = NoString THEN FALSE
    ELSE IF Cardinality(skipOnly) > 0 THEN name \in skipOnly
    ELSE IF Cardinality(applyOnly) > 0 THEN name \notin applyOnly
    ELSE name \in globals

\* State.shouldSkip, on the three sets of a State.
shouldSkip(name, globals, skipOnly, applyOnly) ==
    IF name = NoString THEN FALSE
    ELSE IF Cardinality(applyOnly) > 0 THEN name \notin applyOnly
    ELSE IF Cardinality(skipOnly) > 0 THEN name \in skipOnly
    ELSE name \in globals

-----------------------------------------------------------------------------
(* Command line: parseNames, validateNames, parseOption *)

Includes(argv, flag) == \E i \in 1..Len(argv) : argv[i] = flag

\* Array.prototype.indexOf, one-based; 0 stands for -1.
IndexOf(argv, flag) ==
    IF Includes(argv, flag)
    THEN CHOOSE i \in 1..Len(argv) :
             argv[i] = flag /\ \A j \in 1..(i - 1) : argv[j] # flag
    ELSE 0

\* String.prototype.split(',')
RECURSIVE SplitComma(_, _)
SplitComma(s, cur) ==
    IF s = <<>> THEN <<cur>>
    ELSE IF Head(s) = "," THEN <<cur>> \o SplitComma(Tail(s), <<>>)
    ELSE SplitComma(Tail(s), Append(cur, Head(s)))

\* String.prototype.trim
RECURSIVE TrimLeft(_)
TrimLeft(s) == IF s # <<>> /\ Head(s) = " " THEN TrimLeft(Tail(s)) ELSE s

RECURSIVE TrimRight(_)
TrimRight(s) ==
    IF s # <<>> /\ s[Len(s)] = " " THEN TrimRight(SubSeq(s, 1, Len(s) - 1)) ELSE s

Trim(s) == TrimRight(TrimLeft(s))

parseNames(input) ==
    IF input = NoString THEN <<>>
    ELSE LET parts == SplitComma(input, <<>>)
             trimmed == [i \in 1..Len(parts) |-> Trim(parts[i])]
         IN SelectSeq(trimmed, LAMBDA n : n # <<>>)

\* /^[a-zA-Z_$][a-zA-Z0-9_$]*$/
IdentStart == LowerCase \cup UpperCase \cup {"_", "$"}
IdentPart == IdentStart \cup Digits

MatchesIdentifier(name) ==
    /\ Len(name) >= 1
    /\ name[1] \in IdentStart
    /\ \A i \in 2..Len(name) : name[i] \in IdentPart

\* A variant of validateNames: only the first name of the list is tested.
validateNamesFirstOnly(names) ==
    names = <<>> \/ MatchesIdentifier(names[1])

validateNames(names) ==
    \A i \in 1..Len(names) : MatchesIdentifier(names[i])

\* args[index + 1] for index = args.indexOf(flag), NoString when the flag is
\* absent or is the last argument.
ArgAfter(argv, flag) ==
    IF IndexOf(argv, flag) # 0 /\ IndexOf(argv, flag) + 1 <= Len(argv)
    THEN argv[IndexOf(argv, flag) + 1] ELSE NoString

\* parseOption once the names are parsed: exits |-> process.exit(1) was called;
\* given |-> a list was returned (FALSE for null); names |-> the list.
OptionNames(present, names) ==
    [exits |-> present /\ ~validateNames(names),
     given |-> present /\ validateNames(names),
     names |-> names]

OptionValue(value) == OptionNames(value # NoString, parseNames(value))

parseOption(argv, flag) == OptionValue(ArgAfter(argv, flag))

SeqToSet(s) == {s[i] : i \in 1..Len(s)}


\* A variant of the mutual-exclusion test of main: --skip-none together with a
\* non-empty apply-only list is refused as well.
ExclusiveOptionsOrSkipNone(argv, skipOnly, applyOnly) ==
    \/ Cardinality(skipOnly) > 0 /\ Cardinality(applyOnly) > 0
    \/ Includes(argv, f_skip_none) /\ Cardinality(applyOnly) > 0

\* main: state.skipOnlySet.size > 0 && state.applyOnlySet.size > 0
ExclusiveOptions(argv, skipOnly, applyOnly) ==
    Cardinality(skipOnly) > 0 /\ Cardinality(applyOnly) > 0

\* The synchronous first part of main, from reading the arguments to building
\* `options`. outcome: "help" and "skip-list" return at once, "exit" is
\* process.exit(1), "run" goes on to fs.stat(inputPath). The sets are those of
\* `state` at that point.
ConfigResult(o, g, s, a, op) ==
    [outcome |-> o, builtInGlobals |-> g, skipOnlySet |-> s,
     applyOnlySet |-> a, options |-> op]

ConfigOf(argv, skipNames, noSkipNames, skipOnlyNames, applyOnlyNames) ==
    LET g1 == IF Includes(argv, f_skip_none) THEN {} ELSE DefaultBuiltInGlobals
        g2 == IF skipNames.given THEN g1 \cup SeqToSet(skipNames.names) ELSE g1
        g3 == IF noSkipNames.given THEN g2 \ SeqToSet(noSkipNames.names) ELSE g2
        g4 == IF skipOnlyNames.given THEN {} ELSE g3
        so == IF skipOnlyNames.given THEN SeqToSet(skipOnlyNames.names) ELSE {}
        ao == IF applyOnlyNames.given THEN SeqToSet(applyOnlyNames.names) ELSE {}
        fileType == ArgAfter(argv, f_type)
        opts == [preview |-> Includes(argv, f_preview), fileType |-> fileType]
        noOpts == [preview |-> FALSE, fileType |-> NoString]
        Result(o, g, s, a, op) == ConfigResult(o, g, s, a, op)
    IN  IF Len(argv) = 0 \/ Includes(argv, f_help)
            THEN Result("help", DefaultBuiltInGlobals, {}, {}, noOpts)
        ELSE IF Includes(argv, f_skip_list)
            THEN Result("skip-list", DefaultBuiltInGlobals, {}, {}, noOpts)
        ELSE IF skipNames.exits THEN Result("exit", g1, {}, {}, noOpts)
        ELSE IF noSkipNames.exits THEN Result("exit", g2, {}, {}, noOpts)
        ELSE IF skipOnlyNames.exits THEN Result("exit", g3, {}, {}, noOpts)
        ELSE IF applyOnlyNames.exits THEN Result("exit", g4, so, {}, noOpts)
        ELSE IF ExclusiveOptions(argv, so, ao) THEN Result("exit", g4, so, ao, noOpts)
        ELSE IF fileType # NoString /\ fileType \notin {v_ts, v_js}
            THEN Result("exit", g4, so, ao, noOpts)
        ELSE Result("run", g4, so, ao, opts)

MainConfig(argv) ==
    ConfigOf(argv, parseOption(argv, f_skip), parseOption(argv, f_no_skip),
             parseOption(argv, f_skip_only), parseOption(argv, f_apply_only))

-----------------------------------------------------------------------------
(* The grammar parser (@babel/parser) on the fragment of the language the  *)
(* model's texts are written in:                                           *)
(*     Program   ::= Statement                                             *)
(*     Statement ::= Chain [ "=" (Chain | Number) | "++" ] [ ";" ]         *)
(*     Chain     ::= Name Link*                                            *)
(*     Link      ::= "." Name | "?." Name | "[" Key "]" | "?." "[" Key "]" *)
(*                 | "(" ")" | "?." "(" ")"                                *)
(*     Key       ::= Name | Number                                         *)
(* with blanks allowed between tokens.                                     *)

Punctuators == {".", "[", "]", "(", ")", "=", ";", "{", "}"}

k_let == <<"l", "e", "t">>
k_const == <<"c", "o", "n", "s", "t">>
k_function == <<"f", "u", "n", "c", "t", "i", "o", "n">>
k_return == <<"r", "e", "t", "u", "r", "n">>
k_enum == <<"e", "n", "u", "m">>
k_import == <<"i", "m", "p", "o", "r", "t">>
k_from == <<"f", "r", "o", "m">>

RECURSIVE QuoteEnd(_, _)
\* One-based index of the quote that closes a string whose content starts at i;
\* past the end of s when there is none.
QuoteEnd(s, i) ==
    IF i > Len(s) \/ s[i] = "'" THEN i ELSE QuoteEnd(s, i + 1)

RECURSIVE RunEnd(_, _, _)
\* One-based index just past the run of characters of class `cls` that starts at i.
RunEnd(s, i, cls) ==
    IF i <= Len(s) /\ s[i] \in cls THEN RunEnd(s, i + 1, cls) ELSE i

Token(type, s, i, e) ==
    [type |-> type, start |-> i - 1, end |-> e - 1, value |-> SubSeq(s, i, e - 1)]

RECURSIVE Tokenize(_, _)
\* The tokens of s from one-based index i on; start and end are zero-based
\* offsets as Babel reports them.
Tokenize(s, i) ==
    IF i > Len(s) THEN <<>>
    ELSE IF s[i] = " " THEN Tokenize(s, i + 1)
    ELSE IF s[i] \in IdentStart
        THEN LET e == RunEnd(s, i, IdentPart)
             IN <<Token("name", s, i, e)>> \o Tokenize(s, e)
    ELSE IF s[i] \in Digits
        THEN LET e == RunEnd(s, i, Digits)
             IN <<Token("num", s, i, e)>> \o Tokenize(s, e)
    ELSE IF s[i] = "?" /\ i + 1 <= Len(s) /\ s[i + 1] = "."
                       /\ ~(i + 2 <= Len(s) /\ s[i + 2] \in Digits)
        THEN <<Token("?.", s, i, i + 2)>> \o Tokenize(s, i + 2)
    ELSE IF s[i] = "+" /\ i + 1 <= Len(s) /\ s[i + 1] = "+"
        THEN <<Token("++", s, i, i + 2)>> \o Tokenize(s, i + 2)
    ELSE IF s[i] = "'" /\ QuoteEnd(s, i + 1) <= Len(s)
        THEN <<Token("string", s, i, QuoteEnd(s, i + 1) + 1)>>
                \o Tokenize(s, QuoteEnd(s, i + 1) + 1)
    ELSE IF s[i] \in Punctuators
        THEN <<Token(s[i], s, i, i + 1)>> \o Tokenize(s, i + 1)
    ELSE <<Token("error", s, i, i + 1)>> \o Tokenize(s, i + 1)

TypeAt(toks, i) == IF i <= Len(toks) THEN toks[i].type ELSE "eof"

NoToken == [type |-> "none", start |-> -1, end |-> -1, value |-> <<>>]

Link(kind, optional, computed, property, tokens) ==
    [kind |-> kind, optional |-> optional, computed |-> computed,
     property |-> property, tokens |-> tokens]

BadLink == Link("error", FALSE, FALSE, NoToken, 0)

\* The link that starts at token i, whose type is t0 and which is followed by
\* tokens of types t1, t2, t3: kind "none" when no link starts there and kind
\* "error" when one starts and cannot be completed.
LinkOf(toks, i, t0, t1, t2, t3) ==
    LET bad == BadLink
    IN  IF t0 = "."
            THEN IF t1 = "name" THEN Link("member", FALSE, FALSE, toks[i + 1], 2)
                 ELSE bad
        ELSE IF t0 = "["
            THEN IF t1 \in {"name", "num"} /\ t2 = "]"
                 THEN Link("member", FALSE, TRUE, toks[i + 1], 3)
                 ELSE bad
        ELSE IF t0 = "("
            THEN IF t1 = ")" THEN Link("call", FALSE, FALSE, NoToken, 2) ELSE bad
        ELSE IF t0 = "?."
            THEN IF t1 = "name" THEN Link("member", TRUE, FALSE, toks[i + 1], 2)
                 ELSE IF t1 = "[" /\ t2 \in {"name", "num"} /\ t3 = "]"
                     THEN Link("member", TRUE, TRUE, toks[i + 2], 4)
                 ELSE IF t1 = "(" /\ t2 = ")"
                     THEN Link("call", TRUE, FALSE, NoToken, 3)
                 ELSE bad
        ELSE Link("none", FALSE, FALSE, NoToken, 0)

LinkAt(toks, i) ==
    LinkOf(toks, i, TypeAt(toks, i), TypeAt(toks, i + 1), TypeAt(toks, i + 2),
           TypeAt(toks, i + 3))

RECURSIVE ParseLinks(_, _, _)
RECURSIVE ParseLinksWith(_, _, _, _)
\* The links from token i on, after those of acc.
ParseLinks(toks, i, acc) == ParseLinksWith(toks, i, acc, LinkAt(toks, i))

ParseLinksWith(toks, i, acc, l) ==
    IF l.kind = "none" THEN [ok |-> TRUE, next |-> i, links |-> acc]
    ELSE IF l.kind = "error" THEN [ok |-> FALSE, next |-> i, links |-> acc]
    ELSE ParseLinks(toks, i + l.tokens, Append(acc, l))

ChainOf(root, r) == [ok |-> r.ok, next |-> r.next, root |-> root, links |-> r.links]

\* A chain that starts at token i: its root identifier and its links.
ParseChain(toks, i) ==
    IF TypeAt(toks, i) # "name"
    THEN [ok |-> FALSE, next |-> i, root |-> NoToken, links |-> <<>>]
    ELSE ChainOf(toks[i], ParseLinks(toks, i + 1, <<>>))

ParseFailed == [ok |-> FALSE, chains |-> <<>>]

AtEnd(toks, i) ==
    \/ TypeAt(toks, i) = "eof"
    \/ TypeAt(toks, i) = ";" /\ TypeAt(toks, i + 1) = "eof"

ChainNode(c, role) == [role |-> role, root |-> c.root, links |-> c.links]

\* `first = second`, the right side being a chain.
AssignmentOf(toks, first, second) ==
    IF second.ok /\ AtEnd(toks, second.next)
    THEN [ok |-> TRUE,
          chains |-> <<ChainNode(first, "left"), ChainNode(second, "right")>>]
    ELSE ParseFailed

\* The statement whose first chain is `first`.
StatementOf(toks, first) ==
    IF ~first.ok THEN ParseFailed
    ELSE IF TypeAt(toks, first.next) = "="
        THEN IF TypeAt(toks, first.next + 1) = "num"
             THEN IF AtEnd(toks, first.next + 2)
                  THEN [ok |-> TRUE, chains |-> <<ChainNode(first, "left")>>]
                  ELSE ParseFailed
             ELSE AssignmentOf(toks, first, ParseChain(toks, first.next + 1))
    ELSE IF TypeAt(toks, first.next) = "++"
        THEN IF AtEnd(toks, first.next + 1)
             THEN [ok |-> TRUE, chains |-> <<ChainNode(first, "argument")>>]
             ELSE ParseFailed
    ELSE IF AtEnd(toks, first.next)
        THEN [ok |-> TRUE, chains |-> <<ChainNode(first, "expression")>>]
    ELSE ParseFailed

ParseTokens(toks) == StatementOf(toks, ParseChain(toks, 1))

ValueAt(toks, i) == IF i <= Len(toks) THEN toks[i].value ELSE NoString

\* The declaration a text may start with, and the name it binds:
\*     let a;   const a = 1;   const a = f();   import a from 'm';
\*     enum a { b }   function f(a) { return Statement }
\* other |-> the name of the function, which is bound too.
Decl(kind, name, other) == [kind |-> kind, name |-> name, other |-> other]
NoDecl == Decl("none", NoString, NoString)

\* from..to |-> the tokens of the statement that follows the declaration, or
\* that the function returns.
Prelude(ok, decl, from, to) == [ok |-> ok, decl |-> decl, from |-> from, to |-> to]
BadPrelude == Prelude(FALSE, NoDecl, 1, 0)

PreludeOf(toks, typescript) ==
    LET T(i) == TypeAt(toks, i)
        n == Len(toks)
    IN  IF T(1) # "name" THEN Prelude(TRUE, NoDecl, 1, n)
        ELSE IF ValueAt(toks, 1) = k_let
            THEN IF T(2) = "name" /\ T(3) = ";"
                 THEN Prelude(TRUE, Decl("let", toks[2].value, NoString), 4, n)
                 ELSE BadPrelude
        ELSE IF ValueAt(toks, 1) = k_const
            THEN IF T(2) = "name" /\ T(3) = "=" /\ T(4) = "num" /\ T(5) = ";"
                 THEN Prelude(TRUE, Decl("const-literal", toks[2].value, NoString), 6, n)
                 ELSE IF T(2) = "name" /\ T(3) = "=" /\ T(4) = "name" /\ T(5) = "("
                            /\ T(6) = ")" /\ T(7) = ";"
                 THEN Prelude(TRUE, Decl("const-call", toks[2].value, toks[4].value), 8, n)
                 ELSE BadPrelude
        ELSE IF ValueAt(toks, 1) = k_import
            THEN IF T(2) = "name" /\ ValueAt(toks, 3) = k_from /\ T(4) = "string"
                        /\ T(5) = ";"
                 THEN Prelude(TRUE, Decl("import", toks[2].value, NoString), 6, n)
                 ELSE BadPrelude
        ELSE IF ValueAt(toks, 1) = k_enum
            THEN IF typescript /\ T(2) = "name" /\ T(3) = "{" /\ T(4) = "name"
                        /\ T(5) = "}"
                 THEN Prelude(TRUE, Decl("enum", toks[2].value, NoString), 6, n)
                 ELSE BadPrelude
        ELSE IF ValueAt(toks, 1) = k_function
            THEN IF T(2) = "name" /\ T(3) = "(" /\ T(4) = "name" /\ T(5) = ")"
                        /\ T(6) = "{" /\ ValueAt(toks, 7) = k_return
                        /\ n >= 9 /\ T(n) = "}"
                 THEN Prelude(TRUE, Decl("param", toks[4].value, toks[2].value), 8, n - 1)
                 ELSE BadPrelude
        ELSE Prelude(TRUE, NoDecl, 1, n)

ProgramFailed == [ok |-> FALSE, chains |-> <<>>, decl |-> NoDecl]

Program(decl, statement) ==
    IF statement.ok
    THEN [ok |-> TRUE, chains |-> statement.chains, decl |-> decl]
    ELSE ProgramFailed

ProgramOf(toks, p) ==
    IF ~p.ok THEN ProgramFailed
    ELSE IF p.from > p.to /\ p.decl.kind # "none"
        THEN [ok |-> TRUE, chains |-> <<>>, decl |-> p.decl]
    ELSE Program(p.decl, ParseTokens(SubSeq(toks, p.from, p.to)))

ParseProgram(toks, typescript) == ProgramOf(toks, PreludeOf(toks, typescript))

\* parser.parse: ok |-> FALSE is a thrown SyntaxError. chains |-> the chains of
\* the statement, each with the role it has in it: "expression" (the whole
\* statement or the argument of `return`), "left" and "right" of an
\* AssignmentExpression, "argument" of an UpdateExpression. decl |-> the
\* declaration before it. typescript |-> the typescript plugin is on, which
\* the model needs for an enum: the texts with an enum are in .ts files.
Parse(s, typescript) == ParseProgram(Tokenize(s, 1), typescript)

-----------------------------------------------------------------------------
(* The AST of a chain. Link k of a chain is the node built by its first k  *)
(* links; its object (or callee) is link k - 1, or the root identifier     *)
(* when k = 1. Babel types a member or call as Optional... from the first  *)
(* `?.` of its chain on.                                                   *)

InOptionalChain(chain, k) == \E j \in 1..k : chain.links[j].optional

NodeType(chain, k) ==
    IF k = 0 THEN "Identifier"
    ELSE IF chain.links[k].kind = "member"
        THEN IF InOptionalChain(chain, k)
             THEN "OptionalMemberExpression" ELSE "MemberExpression"
    ELSE IF InOptionalChain(chain, k)
        THEN "OptionalCallExpression" ELSE "CallExpression"

\* node.name of link k, defined for an Identifier only.
NodeName(chain, k) == IF k = 0 THEN chain.root.value ELSE NoString

\* node.property.name of link k (of a computed access too), when it is a name.
PropertyName(chain, k) ==
    IF k >= 1 /\ chain.links[k].kind = "member"
              /\ chain.links[k].property.type = "name"
    THEN chain.links[k].property.value ELSE NoString

-----------------------------------------------------------------------------
(* addOptionalChaining: the MemberExpression visitor *)

\* The visitor is keyed on MemberExpression and returns on node.optional: a
\* variant that is called on optional members too and guards them again.
AlreadyOptionalNever(chain, k) == FALSE

\* Whether the visitor leaves link k alone because it is already optional:
\* it is not called at all on an OptionalMemberExpression, and returns at once
\* when path.node.optional is set.
AlreadyOptional(chain, k) ==
    NodeType(chain, k) # "MemberExpression" \/ chain.links[k].optional

\* name === 'process' || state.shouldSkip(name)
SkipsReceiver(name, globals, skipOnly, applyOnly) ==
    name = n_process \/ shouldSkip(name, globals, skipOnly, applyOnly)

\* "Direct checks first": the receiver is an Identifier that is skipped by its
\* name.
SkippedByName(chain, k, globals, skipOnly, applyOnly) ==
    /\ NodeType(chain, k - 1) = "Identifier"
    /\ SkipsReceiver(NodeName(chain, k - 1), globals, skipOnly, applyOnly)

\* path.scope.getBinding(name): the kind of the declaration that binds the
\* name, "none" for a name the text does not declare.
BindingKind(decl, name) ==
    IF decl.kind # "none" /\ name = decl.name THEN decl.kind
    ELSE IF decl.kind = "param" /\ name = decl.other THEN "hoisted"
    ELSE "none"

\* A variant that takes the declaration of an enum for its own parent.
BindingParentTypeEnumInside(kind) ==
    CASE kind \in {"let", "const-literal", "const-call"} -> "VariableDeclaration"
      [] kind = "param" -> "FunctionDeclaration"
      [] kind = "import" -> "ImportDeclaration"
      [] kind = "enum" -> "TSEnumDeclaration"
      [] OTHER -> "Program"

\* binding.path.parent.type: a declarator is in its VariableDeclaration, a
\* parameter in its function, a specifier in its ImportDeclaration, and the
\* declaration of a function or of an enum in the Program.
BindingParentType(kind) ==
    CASE kind \in {"let", "const-literal", "const-call"} -> "VariableDeclaration"
      [] kind = "param" -> "FunctionDeclaration"
      [] kind = "import" -> "ImportDeclaration"
      [] OTHER -> "Program"

EnumParent(kind) == BindingParentType(kind) \in {"TSEnumDeclaration", "EnumDeclaration"}

\* binding.path.node.name: only the path of a parameter is an Identifier.
BindingNodeName(kind, name) == IF kind = "param" THEN name ELSE NoString

\* binding.constant: the statement does not assign to the name itself.
BindingConstant(ast, name) ==
    \A c \in 1..Len(ast.chains) :
        ~(/\ ast.chains[c].role \in {"left", "argument"}
          /\ ast.chains[c].links = <<>>
          /\ ast.chains[c].root.value = name)

\* A variant of the checks that exempts every declared name.
BindingSkipsDeclared(ast, name, b, globals, skipOnly, applyOnly) == b # "none"

\* "Binding checks" on a receiver bound with kind b: an imported binding, a
\* binding inside an enum declaration, a constant initialized with a literal,
\* or a binding whose node has a skipped name.
BindingSkips(ast, name, b, globals, skipOnly, applyOnly) ==
    /\ b # "none"
    /\ \/ b = "import"
       \/ EnumParent(b)
       \/ b = "const-literal" /\ BindingConstant(ast, name)
       \/ shouldSkip(BindingNodeName(b, name), globals, skipOnly, applyOnly)

SkippedByBinding(ast, chain, k, globals, skipOnly, applyOnly) ==
    /\ NodeType(chain, k - 1) = "Identifier"
    /\ BindingSkips(ast, NodeName(chain, k - 1),
                    BindingKind(ast.decl, NodeName(chain, k - 1)),
                    globals, skipOnly, applyOnly)

\* "Check enum access in member expressions": the walk down the
\* MemberExpression objects of link k meets an identifier bound inside an enum
\* declaration.
isEnumAccess(ast, chain, k) ==
    /\ k >= 2
    /\ \A i \in 1..(k - 1) : NodeType(chain, i) = "MemberExpression"
    /\ EnumParent(BindingKind(ast.decl, chain.root.value))

\* A variant of the walk that knows the callee rule only.
SkippedByParentsCalleeOnly(chain, k) ==
    \E j \in (k + 1)..Len(chain.links) : NodeType(chain, j) = "CallExpression"

\* "Check parent chain": walking up from link k, some parent is a
\* CallExpression whose callee is the node below it, or the chain as a whole is
\* the left side of an AssignmentExpression or the argument of an
\* UpdateExpression.
SkippedByParents(chain, k) ==
    \/ \E j \in (k + 1)..Len(chain.links) : NodeType(chain, j) = "CallExpression"
    \/ chain.role \in {"left", "argument"}

\* "Skip process.env access": the object is a MemberExpression process.env.
ProcessEnvAccess(chain, k) ==
    /\ NodeType(chain, k - 1) = "MemberExpression"
    /\ NodeName(chain, k - 2) = n_process
    /\ PropertyName(chain, k - 1) = n_env

\* Whether the visitor adds an offset for link k of the chain.
Guarded(ast, chain, k, globals, skipOnly, applyOnly) ==
    /\ chain.links[k].kind = "member"
    /\ ~AlreadyOptional(chain, k)
    /\ ~SkippedByName(chain, k, globals, skipOnly, applyOnly)
    /\ ~SkippedByBinding(ast, chain, k, globals, skipOnly, applyOnly)
    /\ ~SkippedByParents(chain, k)
    /\ ~(k >= 2 /\ ProcessEnvAccess(chain, k))
    /\ ~isEnumAccess(ast, chain, k)

\* A variant of the offset: the start of the property itself.
InsertPositionAtProperty(link) == link.property.start

\* insertPositions.add(path.node.property.start - 1)
InsertPosition(link) == link.property.start - 1

\* The member and call nodes of a parsed text: link k of chain c as <<c, k>>.
LinksOf(ast) ==
    UNION {{<<c, k>> : k \in 1..Len(ast.chains[c].links)} : c \in 1..Len(ast.chains)}

\* insertPositions after the traversal of a parsed text.
InsertPositions(ast, globals, skipOnly, applyOnly) ==
    {InsertPosition(ast.chains[c].links[k]) :
        <<c, k>> \in {ck \in LinksOf(ast) :
                        Guarded(ast, ast.chains[ck[1]], ck[2],
                                globals, skipOnly, applyOnly)}}

-----------------------------------------------------------------------------
(* addOptionalChaining: "Apply transformations" *)

Min(a, b) == IF a < b THEN a ELSE b
Max(a, b) == IF a > b THEN a ELSE b

\* A relative index of slice, made absolute in a string of length len.
SliceIndex(len, i) == IF i < 0 THEN Max(len + i, 0) ELSE Min(i, len)

SliceBetween(s, from, to) == IF from >= to THEN <<>> ELSE SubSeq(s, from + 1, to)

\* String.prototype.slice(b, e) with zero-based, possibly negative, indices.
Slice(s, b, e) == SliceBetween(s, SliceIndex(Len(s), b), SliceIndex(Len(s), e))

\* String.prototype.slice(b)
SliceFrom(s, b) == Slice(s, b, Len(s))

\* A variant of one insertion: the text from the offset on is taken one
\* character late.
InsertAtDropping(result, pos) ==
    Slice(result, 0, pos)
        \o (IF Slice(result, pos, pos + 1) # <<".">> THEN <<"?", ".">> ELSE <<"?">>)
        \o SliceFrom(result, pos + 1)

\* One turn of the loop over positions.
InsertAt(result, pos) ==
    Slice(result, 0, pos)
        \o (IF Slice(result, pos, pos + 1) # <<".">> THEN <<"?", ".">> ELSE <<"?">>)
        \o SliceFrom(result, pos)

Largest(S) == CHOOSE x \in S : \A y \in S : y <= x

RECURSIVE SortDescending(_)
\* Array.from(insertPositions).sort((a, b) => b - a)
SortDescending(S) ==
    IF S = {} THEN <<>>
    ELSE <<Largest(S)>> \o SortDescending(S \ {Largest(S)})

\* A variant of the order: the offsets are applied as they were collected.
UnsortedPositions(collected) == collected

\* const positions = Array.from(insertPositions).sort((a, b) => b - a), for a
\* set whose insertion order is `collected`.
SortedPositions(collected) == SortDescending(SeqToSet(collected))

RECURSIVE ApplyPositions(_, _)
ApplyPositions(result, positions) ==
    IF positions = <<>> THEN result
    ELSE ApplyPositions(InsertAt(result, Head(positions)), Tail(positions))

\* The return value of addOptionalChaining; threw |-> parser.parse threw.
PassResult(text, threw, insertPositions) ==
    [threw |-> threw,
     positions |-> insertPositions,
     code |-> ApplyPositions(text, SortDescending(insertPositions)),
     hasChanges |-> insertPositions # {}]

\* A variant of the set: the offsets of the pass before are still in it.
KeptInsertPositions == lastPass.positions

\* const insertPositions = new Set(), before the traversal.
NewInsertPositions == {}

\* addOptionalChaining from the traversal on.
Traverse(text, ast, globals, skipOnly, applyOnly) ==
    IF ast.ok
    THEN PassResult(text, FALSE,
                    NewInsertPositions
                       \cup InsertPositions(ast, globals, skipOnly, applyOnly))
    ELSE PassResult(text, TRUE, {})

\* validatePath: ImportDeclaration() { hasImport = true }
hasImport(ast) == ast.decl.kind = "import"

\* validatePath: a CallExpression whose callee is the identifier `require`.
hasRequire(ast) ==
    \/ ast.decl.kind = "const-call" /\ ast.decl.other = n_require
    \/ \E c \in 1..Len(ast.chains) :
          /\ ast.chains[c].root.value = n_require
          /\ ast.chains[c].links # <<>>
          /\ NodeType(ast.chains[c], 1) = "CallExpression"

\* validatePath(ast, filePath, state): whether state.addWarning() is called.
validatePath(ast) == ast.ok /\ hasImport(ast) /\ hasRequire(ast)

\* filePath.toLowerCase().endsWith('.ts') || ...endsWith('.tsx')
IsTypeScript(ext) == ext = "ts"

\* addOptionalChaining(code, filePath, state)
addOptionalChaining(text, ext, globals, skipOnly, applyOnly) ==
    Traverse(text, Parse(text, IsTypeScript(ext)), globals, skipOnly, applyOnly)


-----------------------------------------------------------------------------
(* processFile: the iteration loop *)

\* The byte 0 of a buffer.
c_nul == "NUL"

BinarySample == 4096

\* isBinaryFile(buffer): a zero byte among the first 4096.
isBinaryFile(buffer) ==
    \E i \in 1..Min(Len(buffer), BinarySample) : buffer[i] = c_nul

\* A variant of the loop test that forgets the cap.
LoopContinuesUncapped(iter, cap, text, previous) == text # previous

\* while (iteration <= state.config.maxIterations && code !== previousCode)
LoopContinues(iter, cap, text, previous) == iter <= cap /\ text # previous

\* A variant of the convergence test: the first pass ends the loop, whether it
\* changed the text or not.
PassConvergedAtOnce(newCode, previous, iter) == newCode = previous \/ iter >= 1

\* if (code === previousCode) break, after the pass numbered iter
PassConverged(newCode, previous, iter) == newCode = previous

\* The --type filter of processFile: the file is left out.
FilteredByType(fileType, ext) ==
    /\ fileType # NoString
    /\ \/ fileType = v_ts /\ ext # "ts"
       \/ fileType = v_js /\ ext = "ts"

-----------------------------------------------------------------------------
(* The second program of index.js: the synchronous variant with a module-  *)
(* level builtInGlobals, one pass per file and its own command line.       *)

LegacyBuiltInGlobals ==
    {n_Array, n_Object, n_String, n_Number, n_Boolean, n_Date, n_Math, n_JSON,
     n_RegExp, n_Error, n_Map, n_Set, n_WeakMap, n_WeakSet, n_Promise, n_Proxy,
     n_Reflect, n_BigInt, n_Symbol, n_Function, n_console, n_Buffer}

\* validateGlobals: every item matches /^[a-zA-Z_$][a-zA-Z0-9_$]*$/
validateGlobals(globals) ==
    \A i \in 1..Len(globals) : MatchesIdentifier(globals[i])

StartsWithDashes(arg) == Len(arg) >= 2 /\ arg[1] = "-" /\ arg[2] = "-"

RECURSIVE ItemsFrom(_, _)
\* The arguments from index i up to the next one that starts with `--`.
ItemsFrom(argv, i) ==
    IF i > Len(argv) \/ StartsWithDashes(argv[i]) THEN <<>>
    ELSE <<argv[i]>> \o ItemsFrom(argv, i + 1)

\* noSkipItems / skipItems: empty when the flag is absent.
ItemsAfter(argv, flag) ==
    IF Includes(argv, flag) THEN ItemsFrom(argv, IndexOf(argv, flag) + 1) ELSE <<>>

\* isValidFileType for an entry with extension ext: "exit" is process.exit(1).
\* An absent type accepts .ts, .tsx, .js and .jsx, which every file of the
\* model has; the types of the model are written in lower case.
isValidFileType(ext, fileType) ==
    IF fileType = NoString THEN "valid"
    ELSE IF fileType = v_ts THEN (IF ext = "ts" THEN "valid" ELSE "invalid")
    ELSE IF fileType = v_js THEN (IF ext = "js" THEN "valid" ELSE "invalid")
    ELSE "exit"

\* The CLI block up to fs.statSync: outcome "help" is process.exit(0), "exit"
\* is process.exit(1), "run" goes on to the input path.
LegacyConfigOf(argv, noSkipItems, skipItems) ==
    LET result(o, g) ==
            [outcome |-> o, builtInGlobals |-> g,
             options |-> [preview |-> Includes(argv, f_preview),
                          fileType |-> ArgAfter(argv, f_type)]]
    IN  IF Includes(argv, f_help) \/ Includes(argv, f_h) THEN result("help", LegacyBuiltInGlobals)
        ELSE IF Includes(argv, f_options) \/ Includes(argv, f_o)
            THEN result("help", LegacyBuiltInGlobals)
        ELSE IF Len(argv) = 0 THEN result("exit", LegacyBuiltInGlobals)
        ELSE IF Includes(argv, f_skip_list) THEN result("help", LegacyBuiltInGlobals)
        ELSE IF ~validateGlobals(noSkipItems) THEN result("exit", LegacyBuiltInGlobals)
        ELSE IF ~validateGlobals(skipItems)
            THEN result("exit", LegacyBuiltInGlobals \ SeqToSet(noSkipItems))
        ELSE result("run", (LegacyBuiltInGlobals \ SeqToSet(noSkipItems))
                                \cup SeqToSet(skipItems))

LegacyConfig(argv) ==
    LegacyConfigOf(argv, ItemsAfter(argv, f_no_skip), ItemsAfter(argv, f_skip))

\* parser.parse without the optionalChainingAssign plugin and without
\* errorRecovery: an assignment or `++` whose target is not an identifier or a
\* plain member access throws as well.
LegacyParseOf(ast) ==
    IF ast.ok /\ \A c \in 1..Len(ast.chains) :
                    ast.chains[c].role \in {"left", "argument"}
                        => \/ ast.chains[c].links = <<>>
                           \/ NodeType(ast.chains[c], Len(ast.chains[c].links))
                                 = "MemberExpression"
    THEN ast ELSE ProgramFailed

LegacyParse(s) == LegacyParseOf(Parse(s, TRUE))

\* Scope.globals of @babel/traverse, which path.scope.hasBinding accepts
\* without a declaration: the built-ins of the language among the names of the
\* model.
ScopeGlobals == LegacyBuiltInGlobals \ {n_console, n_Buffer}

\* path.scope.hasBinding(name)
hasBinding(decl, name) == name \in ScopeGlobals \/ BindingKind(decl, name) # "none"

\* The classification sets when the traversal reaches the statement: the
\* declaration comes first in the text and its visitor has run.
nullableVars(decl) == IF decl.kind \in {"let", "param"} THEN {decl.name} ELSE {}
nonNullableVars(decl) ==
    IF decl.kind \in {"const-call", "import"} THEN {decl.name} ELSE {}
enumTypes(decl) == IF decl.kind = "enum" THEN {decl.name} ELSE {}

\* "Skip if the object is known to be non-nullable"
LegacyNonNullableReceiver(decl, chain, k) ==
    NodeType(chain, k - 1) = "Identifier"
        /\ NodeName(chain, k - 1) \in nonNullableVars(decl)

\* shouldAdd after "Find the root object": the walk down the MemberExpression
\* objects of link k ends on an identifier that is an enum or is nullable. No
\* statement of the model fills nullableProps, and none is inside a function
\* expression or an arrow function.
shouldAdd(decl, chain, k) ==
    /\ \A i \in 1..(k - 1) : NodeType(chain, i) = "MemberExpression"
    /\ chain.root.value \in enumTypes(decl) \cup nullableVars(decl)

\* "Skip if accessing a built-in global object"
LegacyBuiltInReceiver(chain, k, globals) ==
    NodeType(chain, k - 1) = "Identifier" /\ NodeName(chain, k - 1) \in globals

\* "Skip if accessing a property on a built-in global": the walk down the
\* MemberExpression objects of link k meets one whose object is a built-in.
isBuiltInChain(chain, k, globals) ==
    /\ k >= 2
    /\ \A i \in 1..(k - 1) : NodeType(chain, i) = "MemberExpression"
    /\ chain.root.value \in globals

\* "Check if this is part of an assignment target": some ancestor is an
\* AssignmentExpression entered from its left side, or an UpdateExpression.
isAssignmentTarget(chain) == chain.role \in {"left", "argument"}

\* Whether the MemberExpression visitor of the variant adds an offset for link
\* k: a computed access returns before the offset is added.
LegacyGuarded(decl, chain, k, globals) ==
    /\ chain.links[k].kind = "member"
    /\ ~AlreadyOptional(chain, k)
    /\ ~LegacyBuiltInReceiver(chain, k, globals)
    /\ ~LegacyNonNullableReceiver(decl, chain, k)
    /\ ~isBuiltInChain(chain, k, globals)
    /\ ~isAssignmentTarget(chain)
    /\ ~chain.links[k].computed
    /\ \/ shouldAdd(decl, chain, k)
       \/ NodeType(chain, k - 1) = "MemberExpression"
       \/ /\ NodeType(chain, k - 1) = "Identifier"
          /\ hasBinding(decl, NodeName(chain, k - 1))
          /\ NodeName(chain, k - 1) \notin nonNullableVars(decl)

LegacyInsertPositions(ast, globals) ==
    {InsertPosition(ast.chains[ck[1]].links[ck[2]]) :
        ck \in {cl \in LinksOf(ast) :
                  LegacyGuarded(ast.decl, ast.chains[cl[1]], cl[2], globals)}}

LegacyTraverse(text, ast, globals) ==
    IF ast.ok
    THEN PassResult(text, FALSE, LegacyInsertPositions(ast, globals))
    ELSE PassResult(text, TRUE, {})

\* addOptionalChaining(code) of the variant; threw |-> parser.parse threw.
LegacyAddOptionalChaining(text, globals) ==
    LegacyTraverse(text, LegacyParse(text), globals)

-----------------------------------------------------------------------------
(* The inputs of the model *)

MaxLinks == 2      \* links in a chain of an input text
MaxOptions == 2    \* options after the path on the command line
MaxOffset == 3     \* largest offset handed to the patch loop run on its own
MaxCollected == 3  \* offsets collected in an order of their own for the patch loop

Concat(a, b) == a \o b

RECURSIVE Flatten(_)
Flatten(ss) == IF ss = <<>> THEN <<>> ELSE Head(ss) \o Flatten(Tail(ss))

SeqsUpTo(S, n) == UNION {[1..m -> S] : m \in 0..n}

Roots == {n_a, n_Object, n_process}

l_dot == <<".", "b">>
l_dot_space == <<".", " ", "b">>
l_optional == <<"?", ".", "b">>
l_computed == <<"[", "b", "]">>
l_computed_space == <<"[", " ", "b", "]">>
l_call == <<"(", ")">>
l_env == <<".", "e", "n", "v">>

LinkForms == {l_dot, l_dot_space, l_optional, l_computed, l_computed_space,
              l_call, l_env}

\* root link* alone, as the target of `= 1`, as the right side of `x =`, or as
\* the operand of `++`; a target ends in a member access, and the operand of
\* `++` has no optional link.
Statements(root, links) ==
    LET chain == root \o Flatten(links)
        target == links = <<>> \/ links[Len(links)] # l_call
        plain == \A i \in 1..Len(links) : links[i] # l_optional
    IN {chain, <<"x", "=">> \o chain}
        \cup (IF target THEN {chain \o <<"=", "1">>} ELSE {})
        \cup (IF target /\ plain THEN {chain \o <<"+", "+">>} ELSE {})

\* A text the parser rejects as it stands.
t_bad == <<"a", ".">>

\* A call written with `?.` on a plain access.
t_optional_call == <<"a", ".", "b", "?", ".", "(", ")">>

Texts ==
    UNION {Statements(r, ls) : r \in Roots, ls \in SeqsUpTo(LinkForms, MaxLinks)}
    \cup {t_bad, t_optional_call}

t_ab == <<"a", ".", "b">>
t_a_b == <<"a", ".", " ", "b">>
t_xab == <<"x", "=", "a", ".", "b">>
t_a == <<"a">>
SmallTexts == {t_ab, t_a_b, t_a, t_bad}

File(ext, text) == [ext |-> ext, text |-> text]

p_let == <<"l", "e", "t", " ", "a", ";">>
p_const_literal == <<"c", "o", "n", "s", "t", " ", "a", "=", "1", ";">>
p_const_call == <<"c", "o", "n", "s", "t", " ", "a", "=", "f", "(", ")", ";">>
p_import ==
    <<"i", "m", "p", "o", "r", "t", " ", "a", " ", "f", "r", "o", "m", " ", "'", "m", "'", ";">>
p_enum == <<"e", "n", "u", "m", " ", "a", "{", "b", "}">>
p_function ==
    <<"f", "u", "n", "c", "t", "i", "o", "n", " ", "f", "(", "a", ")", "{",
      "r", "e", "t", "u", "r", "n", " ">>

\* A file with a zero byte.
t_binary == <<"a", ".", "b", c_nul>>

\* An import and a call of require.
t_mixed == p_import \o <<"r", "e", "q", "u", "i", "r", "e", "(", ")", ".", "b">>

\* The statements on the declared name a.
DeclStatements ==
    UNION {Statements(n_a, ls) : ls \in {<<l_dot>>, <<l_dot, l_dot>>, <<l_dot, l_call>>}}

\* A declaration of a and a statement on it; the enum is in a .ts file.
DeclFiles ==
    {File("js", p \o st) : p \in {p_let, p_const_literal, p_const_call, p_import},
                           st \in DeclStatements}
    \cup {File("ts", p_enum \o st) : st \in DeclStatements}
    \cup {File("js", p_function \o st \o <<"}">>) : st \in DeclStatements}

CoreArgs == {<<v_src>>, <<v_src, f_preview>>, <<v_src, f_skip_none>>,
             <<v_src, f_skip_only, v_a>>, <<v_src, f_apply_only, v_a_process>>}

LowCaps == {1, 2}

CliOptions ==
    {<<f_help>>, <<f_skip_list>>, <<f_skip_none>>, <<f_preview>>}
    \cup {<<f, v>> : f \in {f_skip, f_no_skip, f_skip_only, f_apply_only},
                     v \in {v_a, v_bad, v_comma}}
    \cup {<<f_type, v>> : v \in {v_ts, v_xx}}
    \cup {<<f_apply_only>>}

CliArgs == {<<v_src>> \o Flatten(os) : os \in SeqsUpTo(CliOptions, MaxOptions)}

LegacyArgs ==
    {<<v_src>>, <<v_src, f_preview>>, <<v_src, f_no_skip, n_Object>>,
     <<v_src, f_skip, n_a, n_b>>}

LegacyCliArgs ==
    {<<v_src, f_skip, v_1x>>, <<v_src, f_no_skip, n_a, v_1x, f_preview>>,
     <<v_src, f_type, v_ts>>, <<v_src, f_type, v_js>>, <<v_src, f_type, v_xx>>,
     <<v_src, f_h>>, <<v_src, f_options>>, <<v_src, f_skip_list>>, <<v_src, f_preview>>}

PatchTexts == {t_ab, t_a_b, <<".", ".">>}
PatchOffsets == (0 - 1)..MaxOffset

\* The orders in which a traversal can have added distinct offsets to the set.
CollectedOrders ==
    {c \in SeqsUpTo(PatchOffsets, MaxCollected) :
        \A i, j \in 1..Len(c) : i # j => c[i] # c[j]}

-----------------------------------------------------------------------------
(* Initial states *)

NoPass == [ran |-> FALSE, file |-> 0, input |-> <<>>, positions |-> {},
           output |-> <<>>, threw |-> FALSE]
NoPatch == [code |-> <<>>, result |-> <<>>, collected |-> <<>>, pending |-> <<>>,
           applied |-> <<>>]
NoOptions == [preview |-> FALSE, fileType |-> NoString]
NoStats == [filesProcessed |-> 0, filesModified |-> 0, errors |-> 0, warnings |-> 0]

InitRun ==
    /\ pc = "main"
    /\ builtInGlobals = DefaultBuiltInGlobals
    /\ patch = NoPatch
    /\ \/ /\ args \in CoreArgs
          /\ maxIterations = DefaultMaxIterations
          /\ inputIsDir = FALSE
          /\ disk \in {<<File("js", t)>> : t \in Texts}
       \/ /\ args = <<v_src>>
          /\ maxIterations \in LowCaps
          /\ inputIsDir = FALSE
          /\ disk \in {<<File("js", t)>> : t \in Texts}
       \/ /\ args \in CliArgs
          /\ maxIterations = DefaultMaxIterations
          /\ inputIsDir = FALSE
          /\ disk = <<File("js", t_xab)>>
       \/ /\ args \in {<<v_src>>, <<v_src, f_preview>>}
          /\ maxIterations = DefaultMaxIterations
          /\ inputIsDir = FALSE
          /\ disk \in {<<f>> : f \in DeclFiles}
       \/ /\ args \in {<<v_src>>, <<v_src, f_preview>>, <<v_src, f_type, v_ts>>}
          /\ maxIterations = DefaultMaxIterations
          /\ inputIsDir = TRUE
          /\ disk \in {<<File(e1, t1), File(e2, t2)>> :
                         e1 \in {"js"}, e2 \in {"js", "ts"},
                         t1 \in SmallTexts \cup {t_mixed, t_binary},
                         t2 \in SmallTexts}

InitLegacy ==
    /\ pc = "legacy"
    /\ patch = NoPatch
    /\ maxIterations = DefaultMaxIterations
    /\ builtInGlobals = LegacyBuiltInGlobals
    /\ \/ /\ args \in LegacyArgs
          /\ inputIsDir = FALSE
          /\ disk \in {<<File("js", t)>> : t \in Texts}
       \/ /\ args = <<v_src>>
          /\ inputIsDir = FALSE
          /\ disk \in {<<f>> : f \in DeclFiles}
       \/ /\ args \in LegacyCliArgs
          /\ inputIsDir \in BOOLEAN
          /\ disk \in {<<File("js", t1), File("ts", t2)>> :
                         t1 \in SmallTexts, t2 \in SmallTexts}

InitPatch ==
    /\ pc = "patch"
    /\ builtInGlobals = DefaultBuiltInGlobals
    /\ args = <<>>
    /\ maxIterations = DefaultMaxIterations
    /\ inputIsDir = FALSE
    /\ disk = <<>>
    /\ \/ \E t \in PatchTexts, S \in SUBSET PatchOffsets :
          patch = [code |-> t, result |-> t, collected |-> SortDescending(S),
                   pending |-> SortedPositions(SortDescending(S)), applied |-> <<>>]
       \/ \E t \in PatchTexts, c \in CollectedOrders :
          patch = [code |-> t, result |-> t, collected |-> c,
                   pending |-> SortedPositions(c), applied |-> <<>>]

Init ==
    /\ InitRun \/ InitLegacy \/ InitPatch
    /\ exitCode = "running"
    /\ skipOnlySet = {}
    /\ applyOnlySet = {}
    /\ options = NoOptions
    /\ entry = 0
    /\ code = <<>>
    /\ previousCode = <<>>
    /\ iteration = 0
    /\ hasChanges = FALSE
    /\ stats = NoStats
    /\ fsLog = <<>>
    /\ passes = 0
    /\ lastPass = NoPass
    /\ driver = "none"
    /\ orig = disk

-----------------------------------------------------------------------------
(* Actions *)

fileVars == <<code, previousCode, iteration, hasChanges, passes, lastPass, driver>>
configVars == <<args, maxIterations, inputIsDir, orig, patch>>
stateSets == <<builtInGlobals, skipOnlySet, applyOnlySet>>

\* main, up to the first await.
MainOutcome(m) ==
    /\ builtInGlobals' = m.builtInGlobals
    /\ skipOnlySet' = m.skipOnlySet
    /\ applyOnlySet' = m.applyOnlySet
    /\ options' = m.options
    /\ pc' = IF m.outcome = "run" THEN "stat" ELSE "done"
    /\ exitCode' = CASE m.outcome = "run" -> "running"
                     [] m.outcome = "exit" -> "failed"
                     [] OTHER -> "ok"

Main ==
    /\ pc = "main"
    /\ MainOutcome(MainConfig(args))
    /\ UNCHANGED <<configVars, fileVars, disk, entry, stats, fsLog>>

\* main: fs.stat(inputPath), then processDirectory up to its loop (realpath,
\* readdir) or processFile.
StatInput ==
    /\ pc = "stat"
    /\ IF inputIsDir
       THEN /\ fsLog' = fsLog \o <<<<"stat", 0>>, <<"realpath", 0>>, <<"readdir", 0>>>>
            /\ pc' = "dir"
       ELSE /\ fsLog' = Append(fsLog, <<"stat", 0>>)
            /\ pc' = "file"
    /\ entry' = 1
    /\ UNCHANGED <<configVars, stateSets, options, fileVars, disk, stats, exitCode>>

\* processDirectory: one turn of the loop over the entries, up to processFile.
DirectoryEntry ==
    /\ pc = "dir"
    /\ entry <= Len(disk)
    /\ fsLog' = Append(fsLog, <<"lstat", entry>>)
    /\ pc' = "file"
    /\ UNCHANGED <<configVars, stateSets, options, fileVars, disk, entry, stats,
                   exitCode>>

\* Where processFile returns to: the next entry of the directory, or the end of
\* main's try block.
AfterFile == IF inputIsDir THEN "dir" ELSE "complete"

\* processFile: fs.stat and the --type filter.
FileStat ==
    /\ pc = "file"
    /\ fsLog' = Append(fsLog, <<"stat", entry>>)
    /\ IF FilteredByType(options.fileType, disk[entry].ext)
       THEN /\ pc' = AfterFile
            /\ entry' = entry + 1
       ELSE /\ pc' = "read"
            /\ entry' = entry
    /\ UNCHANGED <<configVars, stateSets, options, fileVars, disk, stats, exitCode>>

\* processFile: fs.readFile, the test for a binary file and the set-up of the
\* loop.
FileRead ==
    /\ pc = "read"
    /\ fsLog' = Append(fsLog, <<"readFile", entry>>)
    /\ IF isBinaryFile(disk[entry].text)
       THEN /\ pc' = AfterFile
            /\ entry' = entry + 1
            /\ UNCHANGED fileVars
       ELSE /\ code' = disk[entry].text
            /\ previousCode' = <<>>
            /\ iteration' = 1
            /\ hasChanges' = FALSE
            /\ passes' = 0
            /\ lastPass' = NoPass
            /\ driver' = "none"
            /\ pc' = IF LoopContinues(1, maxIterations, disk[entry].text, <<>>)
                     THEN "loop" ELSE "finish"
            /\ entry' = entry
    /\ UNCHANGED <<configVars, stateSets, options, disk, stats, exitCode>>

\* A variant of the loop that saves the text of every pass to the file.
DiskAfterPassSaved(d, e, r) == IF r.threw THEN d ELSE [d EXCEPT ![e].text = r.code]

\* The files after a pass on file e with result r: the loop keeps the text in
\* `code` and writes nothing; fs.writeFile comes after the loop.
DiskAfterPass(d, e, r) == d

\* processFile: one turn of the loop, from `previousCode = code` to the next
\* test of the loop condition. A throw of addOptionalChaining goes through the
\* catch of processFile to the catch of main.
IterateWith(r, warned) ==
    /\ passes' = passes + 1
    /\ disk' = DiskAfterPass(disk, entry, r)
    /\ previousCode' = code
    /\ lastPass' = [ran |-> TRUE, file |-> entry, input |-> code,
                    positions |-> r.positions,
                    output |-> r.code, threw |-> r.threw]
    /\ IF r.threw
       THEN /\ stats' = [stats EXCEPT !.errors = @ + 1]
            /\ pc' = "done"
            /\ exitCode' = "failed"
            /\ driver' = "failed"
            /\ UNCHANGED <<code, hasChanges, iteration>>
       ELSE /\ code' = r.code
            /\ stats' = [stats EXCEPT !.warnings = IF warned THEN @ + 1 ELSE @]
            /\ UNCHANGED exitCode
            /\ IF PassConverged(r.code, code, iteration)
               THEN /\ driver' = "converged"
                    /\ pc' = "finish"
                    /\ UNCHANGED <<hasChanges, iteration>>
               ELSE /\ hasChanges' = TRUE
                    /\ iteration' = iteration + 1
                    /\ IF LoopContinues(iteration + 1, maxIterations, r.code, code)
                       THEN pc' = "loop" /\ driver' = "none"
                       ELSE pc' = "finish" /\ driver' = "cap-reached"

Iterate ==
    /\ pc = "loop"
    /\ IterateWith(addOptionalChaining(code, disk[entry].ext, builtInGlobals,
                                       skipOnlySet, applyOnlySet),
                   validatePath(Parse(code, IsTypeScript(disk[entry].ext))))
    /\ UNCHANGED <<configVars, stateSets, options, entry, fsLog>>

\* A variant of the test that never takes the preview branch.
PreviewIgnored(opts) == FALSE

\* if (options.preview): the text is printed instead of written.
PreviewOnly(opts) == opts.preview

\* A variant of the counting: a previewed file counts as modified too.
CountFileAsModified(st, written) ==
    [st EXCEPT !.filesProcessed = @ + 1, !.filesModified = @ + 1]

\* state.stats.filesModified++ after fs.writeFile, state.stats.filesProcessed++
\* in either branch.
CountFile(st, written) ==
    [st EXCEPT !.filesProcessed = @ + 1,
               !.filesModified = IF written THEN @ + 1 ELSE @]

\* processFile: after the loop.
FileFinish ==
    /\ pc = "finish"
    /\ IF ~hasChanges
       THEN UNCHANGED <<disk, stats, fsLog>>
       ELSE IF PreviewOnly(options)
       THEN /\ stats' = CountFile(stats, FALSE)
            /\ UNCHANGED <<disk, fsLog>>
       ELSE /\ disk' = [disk EXCEPT ![entry].text = code]
            /\ fsLog' = Append(fsLog, <<"writeFile", entry>>)
            /\ stats' = CountFile(stats, TRUE)
    /\ pc' = AfterFile
    /\ entry' = entry + 1
    /\ UNCHANGED <<configVars, stateSets, options, fileVars, exitCode>>

\* main: processDirectory or processFile has returned; the statistics are
\* printed and main returns.
Complete ==
    /\ \/ pc = "complete"
       \/ pc = "dir" /\ entry > Len(disk)
    /\ pc' = "done"
    /\ exitCode' = "ok"
    /\ UNCHANGED <<configVars, stateSets, options, fileVars, disk, entry, stats, fsLog>>

\* The CLI block of the variant: the flags, fs.statSync(inputPath) and, for a
\* directory, readdirSync and the count of the matching entries, where an
\* unknown --type exits; for a file, the test of its type.
LegacyMainWith(c) ==
    /\ builtInGlobals' = c.builtInGlobals
    /\ options' = c.options
    /\ IF c.outcome # "run"
       THEN /\ pc' = "legacy-done"
            /\ exitCode' = IF c.outcome = "help" THEN "ok" ELSE "failed"
            /\ UNCHANGED <<fsLog, entry>>
       ELSE /\ fsLog' = IF inputIsDir
                        THEN fsLog \o <<<<"stat", 0>>, <<"readdir", 0>>>>
                        ELSE Append(fsLog, <<"stat", 0>>)
            /\ entry' = 1
            /\ IF isValidFileType(disk[1].ext, c.options.fileType) = "exit"
                  \/ (~inputIsDir
                        /\ isValidFileType(disk[1].ext, c.options.fileType) = "invalid")
               THEN pc' = "legacy-done" /\ exitCode' = "failed"
               ELSE pc' = "legacy-file" /\ exitCode' = "running"

LegacyMain ==
    /\ pc = "legacy"
    /\ LegacyMainWith(LegacyConfig(args))
    /\ UNCHANGED <<configVars, skipOnlySet, applyOnlySet, fileVars, disk, stats>>

\* processFile of the variant on the text it has read: a throw is caught and
\* logged, a result is printed under --preview and written otherwise, changed
\* or not.
LegacyTransform(r, log) ==
    /\ lastPass' = [ran |-> TRUE, file |-> entry, input |-> disk[entry].text,
                    positions |-> r.positions, output |-> r.code, threw |-> r.threw]
    /\ code' = r.code
    /\ IF r.threw \/ options.preview
       THEN /\ fsLog' = Append(log, <<"readFile", entry>>)
            /\ UNCHANGED disk
       ELSE /\ fsLog' = log \o <<<<"readFile", entry>>, <<"writeFile", entry>>>>
            /\ disk' = [disk EXCEPT ![entry].text = r.code]

\* One entry of processDirectory, or the single input file: statSync, the test
\* of the type, processFile. The single file was stat-ed and tested by the CLI
\* block. After the last entry the program ends with status 0.
LegacyProcessFile ==
    /\ pc = "legacy-file"
    /\ IF inputIsDir /\ isValidFileType(disk[entry].ext, options.fileType) # "valid"
       THEN /\ fsLog' = Append(fsLog, <<"stat", entry>>)
            /\ UNCHANGED <<disk, code, lastPass>>
       ELSE LegacyTransform(LegacyAddOptionalChaining(disk[entry].text, builtInGlobals),
                            IF inputIsDir THEN Append(fsLog, <<"stat", entry>>) ELSE fsLog)
    /\ entry' = entry + 1
    /\ IF inputIsDir /\ entry < Len(disk)
       THEN pc' = "legacy-file" /\ exitCode' = "running"
       ELSE pc' = "legacy-done" /\ exitCode' = "ok"
    /\ UNCHANGED <<configVars, stateSets, options, stats, previousCode, iteration,
                   hasChanges, passes, driver>>

\* The loop over positions at the end of addOptionalChaining, one turn at a time.
PatchStep ==
    /\ pc = "patch"
    /\ patch.pending # <<>>
    /\ patch' = [patch EXCEPT !.result = InsertAt(@, Head(patch.pending)),
                              !.pending = Tail(@),
                              !.applied = Append(@, Head(patch.pending))]
    /\ UNCHANGED <<args, maxIterations, inputIsDir, orig, stateSets, options,
                   fileVars, disk, entry, stats, fsLog, exitCode, pc>>

Next ==
    \/ Main
    \/ StatInput
    \/ DirectoryEntry
    \/ FileStat
    \/ FileRead
    \/ Iterate
    \/ FileFinish
    \/ Complete
    \/ LegacyMain
    \/ LegacyProcessFile
    \/ PatchStep

Spec == Init /\ [][Next]_vars


-----------------------------------------------------------------------------
(* Properties *)

\* The program of the state: the variant's, or the current one's past main.
Legacy == pc \in {"legacy", "legacy-file", "legacy-done"}
Running == pc \notin {"main", "patch"} /\ ~Legacy
NameListFlags == {f_skip, f_no_skip, f_skip_only, f_apply_only}
ProbeNames == Roots \cup {n_x, n_b, n_console}
Rewritten == \E i \in 1..Len(disk) : disk[i] # orig[i]
Wrote == \E i \in 1..Len(fsLog) : fsLog[i][1] = "writeFile"

\* The names of a list given on the command line after the first occurrence
\* of a flag.
ListOf(flag) == parseNames(ArgAfter(args, flag))

LegalIdentifier(name) ==
    /\ name # <<>>
    /\ name[1] \in IdentStart
    /\ \A i \in 2..Len(name) : name[i] \in IdentPart

InvalidEntryIn(names) == \E i \in 1..Len(names) : ~LegalIdentifier(names[i])

\* C1: the policy lookup as the contract words it.
ContractSkip(name) ==
    IF applyOnlySet # {} THEN name \notin applyOnlySet
    ELSE IF skipOnlySet # {} THEN name \in skipOnlySet
    ELSE name \in builtInGlobals

\* C1: for every non-empty name and every configuration of the three sets,
\* shouldSkip(name) is "not in apply-only" when apply-only is non-empty,
\* otherwise "in skip-only" when skip-only is non-empty, otherwise "in the
\* built-in globals"; and a pass, which is what looks names up, changes none of
\* the three sets.
C1_ShouldSkipContract ==
    /\ [](\A n \in ProbeNames :
            shouldSkip(n, builtInGlobals, skipOnlySet, applyOnlySet) = ContractSkip(n))
    /\ [][pc = "loop" => UNCHANGED <<builtInGlobals, skipOnlySet, applyOnlySet>>]_vars

C1_Witness ==
    /\ lastPass.ran
    /\ applyOnlySet # {}
    /\ \E n \in ProbeNames : shouldSkip(n, builtInGlobals, skipOnlySet, applyOnlySet)
    /\ \E n \in ProbeNames : ~shouldSkip(n, builtInGlobals, skipOnlySet, applyOnlySet)

\* C2 as stated: a name-list option with an illegal entry, or --skip-only and
\* --apply-only supplied together, is a configuration error.
C2_ConfigurationError ==
    \/ \E i \in 1..(Len(args) - 1) :
          args[i] \in NameListFlags /\ InvalidEntryIn(parseNames(args[i + 1]))
    \/ Includes(args, f_skip_only) /\ Includes(args, f_apply_only)

C2_DetectedError ==
    \/ \E f \in NameListFlags : InvalidEntryIn(ListOf(f))
    \/ ListOf(f_skip_only) # <<>> /\ ListOf(f_apply_only) # <<>>

C3_SkipNoneWithApplyOnlyRejected ==
    (Running /\ Includes(args, f_skip_none) /\ ListOf(f_apply_only) # <<>>)
        => (pc = "done" /\ exitCode = "failed" /\ fsLog = <<>> /\ ~Rewritten)

\* A command line with nothing main objects to other than, possibly, the
\* combination of --skip-none and --apply-only.
C3_OtherwiseAccepted ==
    /\ ~Includes(args, f_help) /\ ~Includes(args, f_skip_list)
    /\ \A f \in NameListFlags : ~InvalidEntryIn(ListOf(f))
    /\ ListOf(f_skip_only) = <<>>
    /\ ArgAfter(args, f_type) \in {NoString, v_ts, v_js}

\* C3 (amended): a run with --skip-none and a non-empty apply-only list is
\* accepted: main goes on to the input path, and the apply-only list alone
\* decides what is skipped. Only --skip-only with --apply-only is refused.
C3_SkipNoneWithApplyOnlyAccepted ==
    (Running /\ Includes(args, f_skip_none) /\ ListOf(f_apply_only) # <<>>
             /\ C3_OtherwiseAccepted)
        => /\ pc = "stat" \/ fsLog # <<>>
           /\ applyOnlySet = SeqToSet(ListOf(f_apply_only))
           /\ \A n \in ProbeNames :
                 shouldSkip(n, builtInGlobals, skipOnlySet, applyOnlySet)
                     = (n \notin applyOnlySet)

C3_Witness ==
    /\ pc = "done" /\ exitCode = "ok" /\ Wrote /\ Rewritten
    /\ Includes(args, f_skip_none) /\ applyOnlySet # {}

\* The chains of the text the last pass was given.
PassChains ==
    IF lastPass.ran
    THEN Parse(lastPass.input, Legacy \/ IsTypeScript(disk[lastPass.file].ext)).chains
    ELSE <<>>

\* Whether the last pass put a guard on a link.
GuardedInPass(link) == link.kind = "member" /\ InsertPosition(link) \in lastPass.positions

\* A chain whose first link is a plain access `root.b` or `root[b]` that nothing
\* but the name of its root can exempt: it is not written with `?.`, no call is
\* made on the chain, and the chain is neither assigned to nor incremented.
NameDecides(chain) ==
    /\ chain.role \in {"expression", "right"}
    /\ Len(chain.links) >= 1
    /\ chain.links[1].kind = "member"
    /\ ~chain.links[1].optional
    /\ \A j \in 2..Len(chain.links) : chain.links[j].kind # "call"

\* C4 (as stated): with --skip-none and neither a skip-only nor an apply-only
\* list, every identifier is rewrite-eligible, the former built-in globals
\* included: a pass guards every access whose receiver is an identifier and
\* that only the name of the identifier could exempt.
C4_SkipNoneMakesEveryNameEligible ==
    (lastPass.ran /\ ~lastPass.threw /\ Includes(args, f_skip_none)
        /\ ~Includes(args, f_skip_only) /\ ~Includes(args, f_apply_only)
        /\ ~Includes(args, f_skip))
        => \A c \in 1..Len(PassChains) :
              NameDecides(PassChains[c]) => GuardedInPass(PassChains[c].links[1])

\* C5 (as stated): with an apply-only list, no access of a chain whose root is
\* not listed is guarded, at any depth of the chain, and an access on a listed
\* root that only its name could exempt is guarded.
C5_ApplyOnlyGuardsListedRootsOnly ==
    (lastPass.ran /\ ~lastPass.threw /\ applyOnlySet # {})
        => \A c \in 1..Len(PassChains) :
              /\ PassChains[c].root.value \notin applyOnlySet
                    => \A k \in 1..Len(PassChains[c].links) :
                          ~GuardedInPass(PassChains[c].links[k])
              /\ (PassChains[c].root.value \in applyOnlySet /\ NameDecides(PassChains[c]))
                    => GuardedInPass(PassChains[c].links[1])

\* C6: the loop of processFile makes at most maxIterations passes; it goes on
\* only after a pass that changed the text, ends "converged" at the first pass
\* that returns its input, and ends "cap-reached" after exactly maxIterations
\* passes that all changed the text, without an error and with the text of the
\* last pass as the result. Only a pass that throws ends it otherwise.
C6_DriverStopsWithinCap ==
    /\ passes <= maxIterations
    /\ (pc = "loop" /\ lastPass.ran) => lastPass.output # lastPass.input
    /\ driver = "converged"
          => (lastPass.ran /\ ~lastPass.threw /\ lastPass.output = lastPass.input
                /\ code = lastPass.output)
    /\ driver = "cap-reached"
          => (passes = maxIterations /\ ~lastPass.threw /\ stats.errors = 0
                /\ exitCode # "failed" /\ code = lastPass.output
                /\ lastPass.output # lastPass.input)
    /\ driver = "failed" => lastPass.threw
    /\ pc = "finish" => driver \in {"converged", "cap-reached"}

C6_Witness ==
    /\ pc = "done" /\ exitCode = "ok"
    /\ driver = "cap-reached"
    /\ passes = maxIterations
    /\ Rewritten

\* C7: when the loop has ended "converged" with text T, one more run of the
\* pipeline on T with the same configuration parses T, inserts nothing and
\* returns T.
C7_ConvergedIsFixedPoint ==
    driver = "converged"
        => addOptionalChaining(code, disk[lastPass.file].ext, builtInGlobals,
                               skipOnlySet, applyOnlySet)
              = [threw |-> FALSE, positions |-> {}, code |-> code, hasChanges |-> FALSE]

C7_Witness ==
    /\ driver = "converged" /\ hasChanges /\ passes >= 2
    /\ pc = "done" /\ Rewritten

\* Whether the access that a guard at offset pos of a text would belong to is
\* already written with `?.`: a `?.` stands at or before pos, with nothing but
\* blanks and an opening bracket after it up to pos.
WrittenOptionalAt(text, pos) ==
    \E q \in 1..pos :
        /\ q + 1 <= Len(text)
        /\ text[q] = "?" /\ text[q + 1] = "."
        /\ \A j \in (q + 2)..(pos + 1) : j <= Len(text) => text[j] \in {" ", "["}

Contains(text, sub) ==
    \E i \in 1..(Len(text) - Len(sub) + 1) : SubSeq(text, i, i + Len(sub) - 1) = sub

DoubleGuard(text) ==
    Contains(text, <<"?", "?">>) \/ Contains(text, <<"?", ".", "?", ".">>)

\* C8: no pass inserts a guard at an access that is already written with
\* `?.`, and no text of the run, in memory or on disk, ever holds `??` or
\* `?.?.`.
C8_NoDoubleGuard ==
    /\ \A pos \in lastPass.positions : ~WrittenOptionalAt(lastPass.input, pos)
    /\ ~DoubleGuard(code)
    /\ ~DoubleGuard(lastPass.output)
    /\ \A i \in 1..Len(disk) : ~DoubleGuard(disk[i].text)

C8_Witness ==
    /\ lastPass.ran /\ ~lastPass.threw
    /\ Contains(lastPass.input, <<"?", ".">>)
    /\ lastPass.positions # {}
    /\ Contains(lastPass.output, <<"?", ".", "b", "?", ".">>)

\* C9 (as stated): every offset a pass adds, taken as an index into the text
\* the pass was given, is the offset of the `.` or of the `[` of the access.
C9_OffsetsPointAtOperator ==
    \A pos \in lastPass.positions :
        pos + 1 <= Len(lastPass.input) /\ lastPass.input[pos + 1] \in {".", "["}

RECURSIVE OnlyInserted(_, _)
\* Whether out is inp with nothing but `?` and `.` characters added: inp is
\* what is left of out when the added characters are deleted.
OnlyInserted(inp, out) ==
    IF out = <<>> THEN inp = <<>>
    ELSE IF inp # <<>> /\ Head(inp) = Head(out) THEN OnlyInserted(Tail(inp), Tail(out))
    ELSE Head(out) \in {"?", "."} /\ OnlyInserted(inp, Tail(out))

WasRead(i) == \E j \in 1..Len(fsLog) : fsLog[j] = <<"readFile", i>>
WasWritten(i) == \E j \in 1..Len(fsLog) : fsLog[j] = <<"writeFile", i>>

\* C11 (as stated): parse and traversal errors are file-scoped: when a
\* directory run has ended, every eligible file of the directory has been
\* processed, whether or not the transformation of another file failed.
C11_FailureLeavesOtherFilesProcessed ==
    /\ (pc = "done" /\ inputIsDir /\ fsLog # <<>>)
          => \A i \in 1..Len(disk) :
                ~FilteredByType(options.fileType, disk[i].ext) => WasRead(i)
    /\ (pc = "legacy-done" /\ inputIsDir /\ fsLog # <<>>)
          => \A i \in 1..Len(disk) :
                isValidFileType(disk[i].ext, options.fileType) = "valid" => WasRead(i)

\* C12: when parsing or traversal fails at any iteration for a file, also
\* after earlier passes changed the text in memory, the file on disk has its
\* original content and the run has not written to it.
C12_FailedFileKeepsOriginal ==
    (lastPass.ran /\ lastPass.threw)
        => /\ disk[lastPass.file] = orig[lastPass.file]
           /\ ~WasWritten(lastPass.file)

C12_Witness ==
    /\ driver = "failed" /\ passes >= 2
    /\ code # orig[entry].text
    /\ disk = orig /\ ~Wrote

RECURSIVE DriverText(_, _, _, _, _, _, _)
RECURSIVE DriverTextAfter(_, _, _, _, _, _, _, _)
\* The text the loop of processFile ends with when it starts pass number iter
\* on `text`, written out from the loop test and the convergence test; the
\* text itself when a pass throws.
DriverText(text, ext, iter, cap, globals, skipOnly, applyOnly) ==
    DriverTextAfter(addOptionalChaining(text, ext, globals, skipOnly, applyOnly),
                    text, ext, iter, cap, globals, skipOnly, applyOnly)

DriverTextAfter(r, text, ext, iter, cap, globals, skipOnly, applyOnly) ==
    IF r.threw \/ PassConverged(r.code, text, iter) THEN text
    ELSE IF LoopContinues(iter + 1, cap, r.code, text)
        THEN DriverText(r.code, ext, iter + 1, cap, globals, skipOnly, applyOnly)
    ELSE r.code

\* The text of file i of the run after the fixed-point loop.
TransformedText(i) ==
    DriverText(orig[i].text, orig[i].ext, 1, maxIterations,
               builtInGlobals, skipOnlySet, applyOnlySet)

\* C13: in preview mode no file is written, whatever the input and the number
\* of files, and the pipeline yields the same text as in write mode: after the
\* loop the text in memory is the transformed text of the file in either mode,
\* and it is what write mode puts on disk.
C13_PreviewWritesNothing ==
    /\ (Running /\ options.preview) => (disk = orig /\ ~Wrote)
    /\ (Legacy /\ Includes(args, f_preview)) => (disk = orig /\ ~Wrote)
    /\ pc = "finish" => code = TransformedText(entry)
    /\ Running => \A i \in 1..Len(disk) :
                     WasWritten(i) => (~options.preview /\ disk[i].text = TransformedText(i))

C13_Witness ==
    /\ pc = "done" /\ exitCode = "ok"
    /\ options.preview /\ inputIsDir
    /\ stats.filesProcessed = Len(disk) /\ Len(disk) >= 2
    /\ disk = orig /\ ~Wrote

\* C14 (as stated): an access that is the target of `=`, the operand of `++`
\* or the callee of a call is never guarded, and neither is an access nested
\* in the object chain of such a target.
C14_TargetsAndCalleesNeverGuarded ==
    (lastPass.ran /\ ~lastPass.threw)
        => \A c \in 1..Len(PassChains) : \A k \in 1..Len(PassChains[c].links) :
              (\/ PassChains[c].role \in {"left", "argument"}
               \/ \E j \in (k + 1)..Len(PassChains[c].links) :
                     PassChains[c].links[j].kind = "call")
                  => ~GuardedInPass(PassChains[c].links[k])

\* C14 (amended): in both variants no access of a chain that is the target of
\* `=` or the operand of `++` is guarded; in the current variant no access
\* below a call written without `?.` is guarded either: not its callee and not
\* an access nested in the callee's chain.
C14_TargetsAndPlainCalleesNeverGuarded ==
    (lastPass.ran /\ ~lastPass.threw)
        => \A c \in 1..Len(PassChains) : \A k \in 1..Len(PassChains[c].links) :
              (\/ PassChains[c].role \in {"left", "argument"}
               \/ /\ ~Legacy
                  /\ \E j \in (k + 1)..Len(PassChains[c].links) :
                        /\ PassChains[c].links[j].kind = "call"
                        /\ ~InOptionalChain(PassChains[c], j))
                  => ~GuardedInPass(PassChains[c].links[k])

C14_Witness ==
    /\ lastPass.ran /\ ~lastPass.threw
    /\ lastPass.input = p_let \o <<"a", ".", "b", ".", "b", "=", "1">>
    /\ lastPass.output = lastPass.input
    /\ pc = "done" /\ disk = orig

\* The chains of the text a file has when the loop of processFile has ended.
FinalChains == Parse(code, IsTypeScript(disk[entry].ext))

\* A chain of property accesses written with a dot and of calls, read and not
\* assigned to, whose root is an identifier that neither its name nor its
\* binding exempts.
AccessAndCallChain(ast, chain) ==
    /\ chain.role \in {"expression", "right"}
    /\ chain.links # <<>>
    /\ \A k \in 1..Len(chain.links) :
          \/ chain.links[k].kind = "call"
          \/ chain.links[k].kind = "member" /\ ~chain.links[k].computed
    /\ ~SkipsReceiver(chain.root.value, builtInGlobals, skipOnlySet, applyOnlySet)
    /\ ~BindingSkips(ast, chain.root.value, BindingKind(ast.decl, chain.root.value),
                     builtInGlobals, skipOnlySet, applyOnlySet)

\* C15 (as stated): when the loop of processFile has ended, every `.` link of
\* a chain of property accesses and method calls rooted at a non-skipped
\* identifier has been rewritten to `?.`.
C15_EveryLinkOfChainGuarded ==
    (Running /\ pc = "finish" /\ FinalChains.ok)
        => \A c \in 1..Len(FinalChains.chains) :
              AccessAndCallChain(FinalChains, FinalChains.chains[c])
                 => \A k \in 1..Len(FinalChains.chains[c].links) :
                       FinalChains.chains[c].links[k].kind = "member"
                          => FinalChains.chains[c].links[k].optional

\* C16 (as stated): without a skip-only or an apply-only list, a pass guards
\* no access of a chain whose root is one of the protected names (the built-in
\* globals and the names added with --skip), at any depth of the chain.
C16_NoGuardBelowProtectedRoot ==
    (lastPass.ran /\ ~lastPass.threw /\ skipOnlySet = {} /\ applyOnlySet = {})
        => \A c \in 1..Len(PassChains) :
              PassChains[c].root.value \in builtInGlobals
                 => \A k \in 1..Len(PassChains[c].links) :
                       ~GuardedInPass(PassChains[c].links[k])

\* The declaration of the text the last pass was given.
PassDecl ==
    IF lastPass.ran
    THEN Parse(lastPass.input, Legacy \/ IsTypeScript(disk[lastPass.file].ext)).decl
    ELSE NoDecl

\* The chains of the last pass that are rooted at the declared name.
OnDeclaredName(c) == PassChains[c].root.value = PassDecl.name

\* C17 (as stated): a name initialized from a call is non-nullable: no pass
\* guards an access of a chain rooted at a name declared `const a = f()`.
C17_InitializedFromCallNeverGuarded ==
    (lastPass.ran /\ ~lastPass.threw /\ PassDecl.kind = "const-call")
        => \A c \in 1..Len(PassChains) :
              OnDeclaredName(c)
                 => \A k \in 1..Len(PassChains[c].links) :
                       ~GuardedInPass(PassChains[c].links[k])

\* The chains of the text the last pass returned.
OutputChains ==
    IF lastPass.ran /\ ~lastPass.threw
    THEN Parse(lastPass.output, Legacy \/ IsTypeScript(disk[lastPass.file].ext)).chains
    ELSE <<>>

\* A chain that reads properties with plain dots only.
PlainRead(chain) ==
    /\ NameDecides(chain)
    /\ \A k \in 1..Len(chain.links) :
          /\ chain.links[k].kind = "member"
          /\ ~chain.links[k].computed
          /\ ~chain.links[k].optional

\* C18: a function parameter is nullable. A pass over a text that reads
\* properties of a parameter the policy does not exempt, as in
\* `function f(a){return a.b.b}`, guards every access of the chain, so the text
\* it returns has `?.` on every link (`return a?.b?.b`); and when the loop of
\* processFile has ended, every link of such a chain is written with `?.`.
C18_ParameterAccessesGuarded ==
    /\ (lastPass.ran /\ ~lastPass.threw /\ PassDecl.kind = "param"
        /\ ~SkipsReceiver(PassDecl.name, builtInGlobals, skipOnlySet, applyOnlySet))
          => \A c \in 1..Len(PassChains) :
                (OnDeclaredName(c) /\ PlainRead(PassChains[c]))
                   => /\ Len(OutputChains) = Len(PassChains)
                      /\ Len(OutputChains[c].links) = Len(PassChains[c].links)
                      /\ \A k \in 1..Len(PassChains[c].links) :
                            /\ GuardedInPass(PassChains[c].links[k])
                            /\ OutputChains[c].links[k].optional
    /\ (Running /\ pc = "finish" /\ FinalChains.ok /\ FinalChains.decl.kind = "param"
        /\ ~SkipsReceiver(FinalChains.decl.name, builtInGlobals, skipOnlySet, applyOnlySet))
          => \A c \in 1..Len(FinalChains.chains) :
                (/\ FinalChains.chains[c].root.value = FinalChains.decl.name
                 /\ AccessAndCallChain(FinalChains, FinalChains.chains[c])
                 /\ \A k \in 1..Len(FinalChains.chains[c].links) :
                       FinalChains.chains[c].links[k].kind = "member")
                   => \A k \in 1..Len(FinalChains.chains[c].links) :
                         FinalChains.chains[c].links[k].optional

C18_Witness ==
    /\ pc = "done" /\ exitCode = "ok" /\ driver = "converged" /\ passes = 2
    /\ orig[1].text = p_function \o <<"a", ".", "b", ".", "b", "}">>
    /\ disk[1].text = p_function \o <<"a", "?", ".", "b", "?", ".", "b", "}">>

\* Whether a text begins with the characters of another.
StartsWith(text, prefix) ==
    Len(text) >= Len(prefix) /\ SubSeq(text, 1, Len(prefix)) = prefix

PolicyIs(m) ==
    /\ builtInGlobals = m.builtInGlobals
    /\ skipOnlySet = m.skipOnlySet
    /\ applyOnlySet = m.applyOnlySet
    /\ options = m.options

\* The text the loop of processFile ends with on file i under the
\* configuration m, computed from the original text of the file alone.
ConfigText(m, i) ==
    DriverText(orig[i].text, orig[i].ext, 1, maxIterations,
               m.builtInGlobals, m.skipOnlySet, m.applyOnlySet)

\* The offsets a pass can add on the text it was given: one per access that is
\* not yet written with `?.`.
OffsetsOfInput ==
    {InsertPosition(PassChains[c].links[k]) :
        <<c, k>> \in {ck \in UNION {{<<c, k>> : k \in 1..Len(PassChains[c].links)} :
                                      c \in 1..Len(PassChains)} :
                        /\ PassChains[ck[1]].links[ck[2]].kind = "member"
                        /\ ~PassChains[ck[1]].links[ck[2]].optional}}

TokenBefore(ch) == IF ch = "." THEN <<"?">> ELSE <<"?", ".">>

RECURSIVE InsertedBefore(_, _, _)
\* The text from offset i on, with the token of every offset of S put
\* immediately before the character that stands at that offset in `text`.
InsertedBefore(text, S, i) ==
    IF i >= Len(text) THEN <<>>
    ELSE (IF i \in S THEN TokenBefore(text[i + 1]) ELSE <<>>)
            \o <<text[i + 1]>> \o InsertedBefore(text, S, i + 1)

\* The offsets a pass can hand over: offsets of characters of the text.
OffsetsInText(text, S) == \A p \in S : 0 <= p /\ p < Len(text)

\* C21: descending-order patching is offset-stable. For distinct offsets of
\* characters of the text, applied from the largest down: the character read
\* at the next offset in the text as changed so far, and the whole text up to
\* it, is that of the text before the loop; after every turn the result is the
\* text before the loop with `?` before each applied offset that holds a `.`
\* and `?.` before each other applied offset; the final result is that text
\* for the set of offsets, in whatever order they were collected. The output
\* of every pass of either program is this text for the offsets of the pass.
C21_DescendingPatchIsOffsetStable ==
    /\ (pc = "patch" /\ OffsetsInText(patch.code, SeqToSet(patch.collected)))
          => /\ patch.result
                   = InsertedBefore(patch.code, SeqToSet(patch.applied), 0)
             /\ patch.pending # <<>>
                   => Slice(patch.result, 0, Head(patch.pending) + 1)
                         = Slice(patch.code, 0, Head(patch.pending) + 1)
             /\ patch.pending = <<>>
                   => patch.result
                         = InsertedBefore(patch.code, SeqToSet(patch.collected), 0)
    /\ (lastPass.ran /\ ~lastPass.threw)
          => /\ OffsetsInText(lastPass.input, lastPass.positions)
             /\ lastPass.output = InsertedBefore(lastPass.input, lastPass.positions, 0)

C21_Witness ==
    /\ pc = "patch" /\ patch.pending = <<>>
    /\ patch.code = t_a_b
    /\ patch.collected = <<1, 3, 2>>
    /\ patch.applied = <<3, 2, 1>>
    /\ patch.result = <<"a", "?", ".", "?", ".", " ", "?", ".", "b">>

\* The files processFile has returned from without a throw.
Completed == {i \in 1..Len(disk) : i < entry}

\* A file that processFile counts: not filtered by --type, without a zero
\* byte, and changed by the loop.
Counted(i) ==
    /\ ~FilteredByType(options.fileType, orig[i].ext)
    /\ c_nul \notin SeqToSet(orig[i].text)
    /\ TransformedText(i) # orig[i].text

\* How many times file i was written.
TimesWritten(i) == Cardinality({j \in 1..Len(fsLog) : fsLog[j] = <<"writeFile", i>>})

====
